---- MODULE Spec2Model ----
(***************************************************************************)
(* Model of parse_text_file (src/neet_ug_extraction.py): the line          *)
(* classifier loop and the per-row field extractor, over real strings.     *)
(* Strings are handled with Len, SubSeq and \o, so that strip, split,      *)
(* join, startswith, the substring tests and the regular expressions are   *)
(* computed character by character as Python computes them.               *)
(***************************************************************************)
EXTENDS Integers, Sequences, FiniteSets, TLC

(* ------------------------------------------------------------------ *)
(* Bounds of the model                                                  *)
(* ------------------------------------------------------------------ *)
\* longest input text, in physical lines, of the free-form inputs
MaxLines == 3
\* most tokens after the four leading tokens of a generated data row
MaxTail == 3
\* number of successive invocations of parse_text_file on the same text
MaxCalls == 2

(* ------------------------------------------------------------------ *)
(* Python string primitives                                             *)
(* ------------------------------------------------------------------ *)
Ch(s, k) == SubSeq(s, k, k)

Digits == {"0", "1", "2", "3", "4", "5", "6", "7", "8", "9"}

\* the whitespace str.strip() and str.split() recognise (space, tab)
IsSpace(c) == c \in {" ", "\t"}

\* str.isdigit(): non-empty and every character a digit
IsDigit(s) == Len(s) > 0 /\ \A k \in 1..Len(s) : Ch(s, k) \in Digits

\* str.startswith(p)
StartsWith(s, p) == Len(s) >= Len(p) /\ SubSeq(s, 1, Len(p)) = p

\* p in s
Contains(s, p) ==
    \E k \in 1..(Len(s) - Len(p) + 1) : SubSeq(s, k, k + Len(p) - 1) = p

\* index of the first non-space character at or after k (Len(s)+1 if none)
RECURSIVE SkipSpaces(_, _)
SkipSpaces(s, k) ==
    IF k <= Len(s) /\ IsSpace(Ch(s, k)) THEN SkipSpaces(s, k + 1) ELSE k

\* index of the first space character at or after k (Len(s)+1 if none)
RECURSIVE SkipWord(_, _)
SkipWord(s, k) ==
    IF k <= Len(s) /\ ~IsSpace(Ch(s, k)) THEN SkipWord(s, k + 1) ELSE k

\* index of the last non-space character at or before k (0 if none)
RECURSIVE SkipSpacesBack(_, _)
SkipSpacesBack(s, k) ==
    IF k >= 1 /\ IsSpace(Ch(s, k)) THEN SkipSpacesBack(s, k - 1) ELSE k

\* str.strip()
Strip(s) ==
    LET a == SkipSpaces(s, 1)
        b == SkipSpacesBack(s, Len(s))
    IN  IF a > b THEN "" ELSE SubSeq(s, a, b)

\* str.split(): the whitespace-delimited tokens from position k on
RECURSIVE SplitFrom(_, _)
SplitFrom(s, k) ==
    LET a == SkipSpaces(s, k)
        b == SkipWord(s, a)
    IN  IF a > Len(s) THEN <<>>
        ELSE <<SubSeq(s, a, b - 1)>> \o SplitFrom(s, b)

Split(s) == SplitFrom(s, 1)

\* ' '.join(parts)
RECURSIVE Join(_)
Join(parts) ==
    IF Len(parts) = 0 THEN ""
    ELSE IF Len(parts) = 1 THEN parts[1]
    ELSE parts[1] \o " " \o Join(Tail(parts))

\* index of the first occurrence of character c at or after k (0 if none)
RECURSIVE Find(_, _, _)
Find(s, c, k) ==
    IF k > Len(s) THEN 0
    ELSE IF Ch(s, k) = c THEN k
    ELSE Find(s, c, k + 1)

\* s.split(':', 1): one or two pieces, cut at the first colon
SplitColonOnce(s) ==
    LET p == Find(s, ":", 1)
    IN  IF p = 0 THEN <<s>>
        ELSE <<SubSeq(s, 1, p - 1), SubSeq(s, p + 1, Len(s))>>

\* text.split('\n'): the physical lines from position k on
RECURSIVE SplitLinesFrom(_, _)
SplitLinesFrom(s, k) ==
    LET p == Find(s, "\n", k)
    IN  IF p = 0 THEN <<SubSeq(s, k, Len(s))>>
        ELSE <<SubSeq(s, k, p - 1)>> \o SplitLinesFrom(s, p + 1)

SplitLines(s) == SplitLinesFrom(s, 1)

\* '\n'.join(ls), used to build the input text blob
RECURSIVE JoinLines(_)
JoinLines(ls) ==
    IF Len(ls) = 0 THEN ""
    ELSE IF Len(ls) = 1 THEN ls[1]
    ELSE ls[1] \o "\n" \o JoinLines(Tail(ls))

(* ------------------------------------------------------------------ *)
(* Regular expressions of the parser                                    *)
(* ------------------------------------------------------------------ *)
\* re.match(r'^\s*Sr\.\s+AIR\s+NEET', line)
HeaderRegex(line) ==
    LET a == SkipSpaces(line, 1)
        b == SkipSpaces(line, a + 3)
        c == SkipSpaces(line, b + 3)
    IN  /\ a + 2 <= Len(line) /\ SubSeq(line, a, a + 2) = "Sr."
        /\ b > a + 3
        /\ b + 2 <= Len(line) /\ SubSeq(line, b, b + 2) = "AIR"
        /\ c > b + 3
        /\ c + 3 <= Len(line) /\ SubSeq(line, c, c + 3) = "NEET"

\* re.match(r'^\(W\)$', tok) on a token without whitespace
MatchW(tok) == tok = "(W)"

\* re.match(r'^\d+:', tok): one or more digits, then a colon
MatchCollegeCode(tok) ==
    \E n \in 1..(Len(tok) - 1) :
        /\ \A k \in 1..n : Ch(tok, k) \in Digits
        /\ Ch(tok, n + 1) = ":"

(* ------------------------------------------------------------------ *)
(* Vocabulary                                                           *)
(* ------------------------------------------------------------------ *)
VALID_CATEGORIES ==
    {"OBC", "SC", "ST", "SEBC", "NTC", "NTD", "NTB", "SBC", "EWS", "HA",
     "VJA", "SOBC", "D1", "D2", "D3", "PWD", "ORP-C"}

SUB_CODES == {"D1", "D2", "D3", "PWD", "ORP-C"}

GENDERS == {"M", "F"}

PROSE_PREFIXES ==
    {"GOVERNMENT", "Note:", "Admissions", "SELECTION", "Printed", "I.Q.:"}

columns ==
    {"Sr No", "AIR", "NEET Roll No.", "CET Form No.", "Name", "Gender",
     "Category", "Quota", "College Code", "College Name"}

(* ------------------------------------------------------------------ *)
(* Field extractor (token positions are 1-based: idx here = idx + 1)    *)
(* ------------------------------------------------------------------ *)
MANDATORY == <<"Sr No", "AIR", "NEET Roll No.", "CET Form No.">>

\* number of mandatory fields consumed before the first missing or
\* non-numeric token (the four "if idx < len(parts) and isdigit" steps)
RECURSIVE LeadingNumeric(_, _)
LeadingNumeric(parts, k) ==
    IF k <= 4 /\ k <= Len(parts) /\ IsDigit(parts[k])
    THEN LeadingNumeric(parts, k + 1)
    ELSE k - 1

\* a mutant of RowRejected: only the first token is tested
RowRejected_FirstOnly(parts) ==
    Len(parts) = 0 \/ ~IsDigit(parts[1])

\* the row is abandoned with "continue": empty token list, non-numeric
\* first token, or a missing / non-numeric token among the first four
RowRejected(parts) ==
    \/ Len(parts) = 0
    \/ ~IsDigit(parts[1])
    \/ LeadingNumeric(parts, 1) < 4

\* Name: position of the first "M" / "F" at or after idx (Len+1 if none)
RECURSIVE NameStop(_, _)
NameStop(parts, idx) ==
    IF idx <= Len(parts) /\ parts[idx] \notin GENDERS
    THEN NameStop(parts, idx + 1)
    ELSE idx

\* a mutant of ExtractCategory: no lookahead for "(W)"
ExtractCategory_NoLookahead(parts, idx) ==
    IF idx <= Len(parts) /\ parts[idx] \in VALID_CATEGORIES
    THEN IF /\ idx + 1 <= Len(parts)
            /\ parts[idx + 1] \in SUB_CODES
            /\ parts[idx] \notin SUB_CODES
         THEN [cat |-> parts[idx] \o " " \o parts[idx + 1], idx |-> idx + 2]
         ELSE [cat |-> parts[idx], idx |-> idx + 1]
    ELSE [cat |-> "", idx |-> idx]

\* a mutant of ExtractCategory: any primary may take a sub-code
ExtractCategory_AnyPrimary(parts, idx) ==
    IF idx <= Len(parts) /\ parts[idx] \in VALID_CATEGORIES
    THEN IF idx + 1 <= Len(parts) /\ MatchW(parts[idx + 1])
         THEN [cat |-> "", idx |-> idx]
         ELSE IF idx + 1 <= Len(parts) /\ parts[idx + 1] \in SUB_CODES
              THEN [cat |-> parts[idx] \o " " \o parts[idx + 1],
                    idx |-> idx + 2]
              ELSE [cat |-> parts[idx], idx |-> idx + 1]
    ELSE [cat |-> "", idx |-> idx]

\* Category: the stripped category text and the position after it
ExtractCategory(parts, idx) ==
    IF idx <= Len(parts) /\ parts[idx] \in VALID_CATEGORIES
    THEN IF idx + 1 <= Len(parts) /\ MatchW(parts[idx + 1])
         THEN [cat |-> Strip(""), idx |-> idx]
         ELSE IF /\ idx + 1 <= Len(parts)
                 /\ parts[idx + 1] \in SUB_CODES
                 /\ parts[idx] \notin SUB_CODES
              THEN [cat |-> Strip(parts[idx] \o " " \o parts[idx + 1]),
                    idx |-> idx + 2]
              ELSE [cat |-> Strip(parts[idx]), idx |-> idx + 1]
    ELSE [cat |-> Strip(""), idx |-> idx]

\* Quota: position of the first token matching ^\d+: at or after idx
RECURSIVE QuotaStop(_, _)
QuotaStop(parts, idx) ==
    IF idx <= Len(parts) /\ ~MatchCollegeCode(parts[idx])
    THEN QuotaStop(parts, idx + 1)
    ELSE idx

\* a mutant of NormalizeQuota: only the exact word is normalised
NormalizeQuota_Exact(quota) ==
    IF quota = "Choice" THEN "Choice Not Available" ELSE quota

\* if quota.startswith('Choice'): quota = 'Choice Not Available'
NormalizeQuota(quota) ==
    IF StartsWith(quota, "Choice") THEN "Choice Not Available" ELSE quota

\* a mutant of ExtractCollege: the name is not trimmed
ExtractCollege_NoStrip(parts, idx) ==
    IF idx <= Len(parts)
    THEN LET college_parts ==
                 SplitColonOnce(Join(SubSeq(parts, idx, Len(parts))))
         IN  IF Len(college_parts) = 2
             THEN [code |-> Strip(college_parts[1]), name |-> college_parts[2]]
             ELSE [code |-> "", name |-> ""]
    ELSE [code |-> "", name |-> ""]

\* College Code and College Name from the tokens left after Quota
ExtractCollege(parts, idx) ==
    IF idx <= Len(parts)
    THEN LET college_parts ==
                 SplitColonOnce(Join(SubSeq(parts, idx, Len(parts))))
         IN  IF Len(college_parts) = 2
             THEN [code |-> Strip(college_parts[1]),
                   name |-> Strip(college_parts[2])]
             ELSE [code |-> "", name |-> ""]
    ELSE [code |-> "", name |-> ""]

\* the row dict built for a line that is not rejected
ExtractRow(parts) ==
    LET lead    == [k \in {j \in 1..4 : j <= Len(parts)} |-> parts[k]]
        nstop   == NameStop(parts, 5)
        name    == Join(SubSeq(parts, 5, nstop - 1))
        hasG    == nstop <= Len(parts) /\ parts[nstop] \in GENDERS
        gender  == IF hasG THEN parts[nstop] ELSE ""
        gidx    == IF hasG THEN nstop + 1 ELSE nstop
        c       == ExtractCategory(parts, gidx)
        qstop   == QuotaStop(parts, c.idx)
        quota   == NormalizeQuota(Join(SubSeq(parts, c.idx, qstop - 1)))
        college == ExtractCollege(parts, qstop)
        rest    == ("Name" :> name) @@ ("Gender" :> gender)
                   @@ ("Category" :> c.cat) @@ ("Quota" :> quota)
                   @@ ("College Code" :> college.code)
                   @@ ("College Name" :> college.name)
    IN  [f \in {MANDATORY[k] : k \in DOMAIN lead} |->
            lead[CHOOSE k \in DOMAIN lead : MANDATORY[k] = f]] @@ rest

(* ------------------------------------------------------------------ *)
(* Inputs                                                               *)
(* ------------------------------------------------------------------ *)
HeaderLine == "Sr.  AIR NEET Roll No."
SubHeaderLine == "No.  Roll No. Form No."
LegendsLine == "Legends : D1 - Defence"
GoodRow == " 1  500 123456 7890 JOHN DOE M OBC State 1001:Govt Medical College"

\* the lines the free-form input texts are made of
FreeLines ==
    {"", HeaderLine, LegendsLine, "Note: provisional",
     "Current Selection Details", "--------", GoodRow, "2 501 x 7891 M"}

\* every text of 1..MaxLines lines over FreeLines
FreeTexts ==
    {JoinLines(ls) : ls \in UNION {[1..n -> FreeLines] : n \in 1..MaxLines}}

\* whole pages, with the other spellings of header, divider and blank
PageTexts ==
    {JoinLines(<<"GOVERNMENT OF X", "   ", "Page Sr.     AIR     NEET Roll",
                 SubHeaderLine, "========", GoodRow, "3 9", GoodRow, "\t",
                 "I.Q.: n", LegendsLine, "Printed on", "4 5 6 7 Z F">>),
     JoinLines(<<"Sr.     AIR     NEET Roll No. CET", SubHeaderLine,
                 "1 500 123456 7890 JOHN DOE M OBC State 1001:Govt Medical College",
                 "Legends :">>)}

\* the tokens a generated data row may carry after its leading tokens
TailTokens == {"A", "M", "OBC", "PWD", "(W)", "Choice", "7:", "12:G", "G:K"}

\* the leading tokens of a generated data row
GoodHead == <<"1", "500", "123456", "7890">>

\* header, sub-header, then one generated data row
RowTexts ==
    {JoinLines(<<HeaderLine, SubHeaderLine, Join(GoodHead \o tail)>>) :
        tail \in UNION {[1..n -> TailTokens] : n \in 0..MaxTail}}

Inputs == FreeTexts \cup PageTexts \cup RowTexts

(* ------------------------------------------------------------------ *)
(* State                                                                *)
(* ------------------------------------------------------------------ *)
VARIABLES
    text,            \* the input text blob handed to parse_text_file
    pc,              \* "idle" (no invocation running) or "loop"
    lines,           \* text.split('\n')
    i,               \* 1-based number of the line the for loop is at
    in_table,
    skip_next_line,
    data,            \* the rows appended so far
    row_count,
    skipped_lines,
    parsed_at,       \* the line number logged with each parsed row
    results          \* what each finished invocation returned

vars == <<text, pc, lines, i, in_table, skip_next_line, data, row_count,
          skipped_lines, parsed_at, results>>

locals == <<lines, i, in_table, skip_next_line, data, row_count,
            skipped_lines, parsed_at>>

Init ==
    /\ text \in Inputs
    /\ pc = "idle"
    /\ lines = <<>>
    /\ i = 1
    /\ in_table = FALSE
    /\ skip_next_line = FALSE
    /\ data = <<>>
    /\ row_count = 0
    /\ skipped_lines = 0
    /\ parsed_at = <<>>
    /\ results = <<>>

(* ------------------------------------------------------------------ *)
(* Line classifier                                                      *)
(* ------------------------------------------------------------------ *)
\* line = line.strip() of the line the loop is at
Cur == Strip(lines[i])

InLoop == pc = "loop" /\ i <= Len(lines)

IsEmpty(line) == line = ""

IsTableStart(line) ==
    HeaderRegex(line) \/ Contains(line, "Sr.     AIR     NEET")

IsTableEnd(line) == Contains(line, "Legends :")

IsProse(line) == \E x \in PROSE_PREFIXES : StartsWith(line, x)

IsCurrentSelection(line) == Contains(line, "Current Selection Details")

IsDivider(line) == StartsWith(line, "----") \/ StartsWith(line, "====")

\* the line passed every skip test and reaches "if in_table:"
ReachesRowTest ==
    /\ InLoop
    /\ ~IsEmpty(Cur)
    /\ ~IsTableStart(Cur)
    /\ ~skip_next_line
    /\ ~IsTableEnd(Cur)
    /\ ~(~in_table /\ IsProse(Cur))
    /\ ~IsCurrentSelection(Cur)
    /\ ~IsDivider(Cur)

(* ------------------------------------------------------------------ *)
(* Actions                                                              *)
(* ------------------------------------------------------------------ *)
\* a mutant of ParseStart: the flags are not local to the invocation
ParseStart_KeepFlags ==
    /\ pc = "idle"
    /\ Len(results) < MaxCalls
    /\ pc' = "loop"
    /\ lines' = SplitLines(text)
    /\ i' = 1
    /\ data' = <<>>
    /\ row_count' = 0
    /\ skipped_lines' = 0
    /\ parsed_at' = <<>>
    /\ UNCHANGED <<text, results, in_table, skip_next_line>>

\* an invocation begins: the locals are created afresh
ParseStart ==
    /\ pc = "idle"
    /\ Len(results) < MaxCalls
    /\ pc' = "loop"
    /\ lines' = SplitLines(text)
    /\ i' = 1
    /\ in_table' = FALSE
    /\ skip_next_line' = FALSE
    /\ data' = <<>>
    /\ row_count' = 0
    /\ skipped_lines' = 0
    /\ parsed_at' = <<>>
    /\ UNCHANGED <<text, results>>

SkipEmpty ==
    /\ InLoop
    /\ IsEmpty(Cur)
    /\ skipped_lines' = skipped_lines + 1
    /\ i' = i + 1
    /\ UNCHANGED <<text, pc, lines, in_table, skip_next_line, data,
                   row_count, parsed_at, results>>

\* a mutant of TableStart: the following line is not marked
TableStart_NoSkip ==
    /\ InLoop
    /\ ~IsEmpty(Cur)
    /\ IsTableStart(Cur)
    /\ in_table' = TRUE
    /\ i' = i + 1
    /\ UNCHANGED <<text, pc, lines, skip_next_line, data, row_count,
                   skipped_lines, parsed_at, results>>

TableStart ==
    /\ InLoop
    /\ ~IsEmpty(Cur)
    /\ IsTableStart(Cur)
    /\ in_table' = TRUE
    /\ skip_next_line' = TRUE
    /\ i' = i + 1
    /\ UNCHANGED <<text, pc, lines, data, row_count, skipped_lines,
                   parsed_at, results>>

SkipSecondHeader ==
    /\ InLoop
    /\ ~IsEmpty(Cur)
    /\ ~IsTableStart(Cur)
    /\ skip_next_line
    /\ skipped_lines' = skipped_lines + 1
    /\ skip_next_line' = FALSE
    /\ i' = i + 1
    /\ UNCHANGED <<text, pc, lines, in_table, data, row_count, parsed_at,
                   results>>

TableEnd ==
    /\ InLoop
    /\ ~IsEmpty(Cur)
    /\ ~IsTableStart(Cur)
    /\ ~skip_next_line
    /\ IsTableEnd(Cur)
    /\ in_table' = FALSE
    /\ i' = i + 1
    /\ UNCHANGED <<text, pc, lines, skip_next_line, data, row_count,
                   skipped_lines, parsed_at, results>>

SkipHeaderFooter ==
    /\ InLoop
    /\ ~IsEmpty(Cur)
    /\ ~IsTableStart(Cur)
    /\ ~skip_next_line
    /\ ~IsTableEnd(Cur)
    /\ ~in_table /\ IsProse(Cur)
    /\ skipped_lines' = skipped_lines + 1
    /\ i' = i + 1
    /\ UNCHANGED <<text, pc, lines, in_table, skip_next_line, data,
                   row_count, parsed_at, results>>

SkipCurrentSelection ==
    /\ InLoop
    /\ ~IsEmpty(Cur)
    /\ ~IsTableStart(Cur)
    /\ ~skip_next_line
    /\ ~IsTableEnd(Cur)
    /\ ~(~in_table /\ IsProse(Cur))
    /\ IsCurrentSelection(Cur)
    /\ skipped_lines' = skipped_lines + 1
    /\ i' = i + 1
    /\ UNCHANGED <<text, pc, lines, in_table, skip_next_line, data,
                   row_count, parsed_at, results>>

SkipDivider ==
    /\ InLoop
    /\ ~IsEmpty(Cur)
    /\ ~IsTableStart(Cur)
    /\ ~skip_next_line
    /\ ~IsTableEnd(Cur)
    /\ ~(~in_table /\ IsProse(Cur))
    /\ ~IsCurrentSelection(Cur)
    /\ IsDivider(Cur)
    /\ skipped_lines' = skipped_lines + 1
    /\ i' = i + 1
    /\ UNCHANGED <<text, pc, lines, in_table, skip_next_line, data,
                   row_count, parsed_at, results>>

\* "if in_table:" is false: the loop body ends without doing anything
SkipNotInTable ==
    /\ ReachesRowTest
    /\ ~in_table
    /\ i' = i + 1
    /\ UNCHANGED <<text, pc, lines, in_table, skip_next_line, data,
                   row_count, skipped_lines, parsed_at, results>>

\* a mutant of RejectRow: "break" in place of "continue"
RejectRow_Break ==
    /\ ReachesRowTest
    /\ in_table
    /\ RowRejected(Split(Cur))
    /\ i' = Len(lines) + 1
    /\ UNCHANGED <<text, pc, lines, in_table, skip_next_line, data,
                   row_count, skipped_lines, parsed_at, results>>

\* the field extractor gives the row up with "continue"
RejectRow ==
    /\ ReachesRowTest
    /\ in_table
    /\ RowRejected(Split(Cur))
    /\ skipped_lines' =
          IF Len(Split(Cur)) = 0 \/ ~IsDigit(Split(Cur)[1])
          THEN skipped_lines + 1 ELSE skipped_lines
    /\ i' = i + 1
    /\ UNCHANGED <<text, pc, lines, in_table, skip_next_line, data,
                   row_count, parsed_at, results>>

\* the field extractor completes the row and appends it
ProcessRow ==
    /\ ReachesRowTest
    /\ in_table
    /\ ~RowRejected(Split(Cur))
    /\ data' = Append(data, ExtractRow(Split(Cur)))
    /\ parsed_at' = Append(parsed_at, i)
    /\ row_count' = row_count + 1
    /\ i' = i + 1
    /\ UNCHANGED <<text, pc, lines, in_table, skip_next_line,
                   skipped_lines, results>>

\* the loop is over: return pd.DataFrame(data, columns=columns)
Return ==
    /\ pc = "loop"
    /\ i > Len(lines)
    /\ results' = Append(results, data)
    /\ pc' = "idle"
    /\ UNCHANGED <<text, lines, i, in_table, skip_next_line, data,
                   row_count, skipped_lines, parsed_at>>

Next ==
    \/ ParseStart
    \/ SkipEmpty
    \/ TableStart
    \/ SkipSecondHeader
    \/ TableEnd
    \/ SkipHeaderFooter
    \/ SkipCurrentSelection
    \/ SkipDivider
    \/ SkipNotInTable
    \/ RejectRow
    \/ ProcessRow
    \/ Return

Spec == Init /\ [][Next]_vars

(* ------------------------------------------------------------------ *)
(* Vocabulary of the properties                                         *)
(* ------------------------------------------------------------------ *)
\* the stripped text of physical line k
Ln(k) == Strip(lines[k])

\* the whitespace tokens of physical line k
Toks(k) == Split(lines[k])

\* line k has been read by the running (or last) invocation
Read(k) == k \in 1..Len(lines) /\ k < i

\* some record was produced from physical line k
Produced(k) == \E n \in 1..Len(parsed_at) : parsed_at[n] = k

\* a well-formed data row: four leading all-digit tokens
WellFormed(toks) ==
    Len(toks) >= 4 /\ \A k \in 1..4 : IsDigit(toks[k])

IsHeaderLine(k) == Ln(k) # "" /\ IsTableStart(Ln(k))

IsLegendsLine(k) == Contains(lines[k], "Legends :")

\* the token at position k, "" when there is none
TokenAt(toks, k) == IF k \in 1..Len(toks) THEN toks[k] ELSE ""

\* the category position: right after the first "M"/"F" that follows the
\* four leading tokens, or past the end when the Name ran to the end
CategoryPosition(toks) ==
    IF \E k \in 5..Len(toks) : toks[k] \in GENDERS
    THEN 1 + CHOOSE k \in 5..Len(toks) :
                 /\ toks[k] \in GENDERS
                 /\ \A j \in 5..(k - 1) : toks[j] \notin GENDERS
    ELSE Len(toks) + 1

\* where category extraction ended for record n: the category position
\* plus the number of codes the record's Category holds
CategoryEnd(n) ==
    CategoryPosition(Toks(parsed_at[n])) + Len(Split(data[n]["Category"]))

\* the first token at or after k that begins with digits and a colon
CollegeStart(toks, k) ==
    IF \E q \in k..Len(toks) : MatchCollegeCode(toks[q])
    THEN CHOOSE q \in k..Len(toks) :
             /\ MatchCollegeCode(toks[q])
             /\ \A j \in k..(q - 1) : ~MatchCollegeCode(toks[j])
    ELSE Len(toks) + 1

Records == 1..Len(data)

(* ------------------------------------------------------------------ *)
(* C1                                                                   *)
(* ------------------------------------------------------------------ *)
\* C1: records come only from lines inside a table region: every record's
\* line has a header line before it with no "Legends :" line in between,
\* and right after a "Legends :" line has been read the in-table flag is
\* false.
C1_RecordsOnlyInsideTable ==
    /\ \A n \in Records :
          \E j \in 1..(parsed_at[n] - 1) :
              /\ IsHeaderLine(j)
              /\ \A k \in (j + 1)..(parsed_at[n] - 1) : ~IsLegendsLine(k)
    /\ (pc = "loop" /\ Read(i - 1) /\ IsLegendsLine(i - 1)
            /\ ~IsHeaderLine(i - 1)) => ~in_table

(* ------------------------------------------------------------------ *)
(* C2                                                                   *)
(* ------------------------------------------------------------------ *)
\* C2: the physical line right after a header line never yields a record,
\* whatever it contains.
C2_LineAfterHeaderNeverParsed ==
    \A k \in 1..Len(lines) :
        (k > 1 /\ IsHeaderLine(k - 1)) => ~Produced(k)

\* a well-formed data row right after a header has been read
C2_Witness ==
    \E k \in 2..Len(lines) :
        /\ IsHeaderLine(k - 1)
        /\ WellFormed(Toks(k))
        /\ ~IsHeaderLine(k) /\ ~IsLegendsLine(k)
        /\ Read(k)
        /\ in_table

(* ------------------------------------------------------------------ *)
(* C3                                                                   *)
(* ------------------------------------------------------------------ *)
\* C3: every record has all ten fields, its four leading fields are
\* all-digit and are the first four tokens of its line; a line that lacks
\* four leading all-digit tokens yields no record.
C3_RowsWholeAndNumeric ==
    /\ \A n \in Records :
          /\ DOMAIN data[n] = columns
          /\ \A k \in 1..4 :
                /\ IsDigit(data[n][MANDATORY[k]])
                /\ Len(Toks(parsed_at[n])) >= k
                /\ data[n][MANDATORY[k]] = Toks(parsed_at[n])[k]
    /\ \A k \in 1..Len(lines) : ~WellFormed(Toks(k)) => ~Produced(k)
    /\ Len(parsed_at) = Len(data)

\* an in-table line with a numeric first token but fewer than four leading
\* numeric tokens was read right after a line that gave a record
C3_Witness ==
    \E k \in 2..Len(lines) :
        /\ Read(k)
        /\ Produced(k - 1)
        /\ Len(Toks(k)) >= 1 /\ IsDigit(Toks(k)[1])
        /\ ~WellFormed(Toks(k))
        /\ i = k + 1

(* ------------------------------------------------------------------ *)
(* C4                                                                   *)
(* ------------------------------------------------------------------ *)
\* C4: when the token at the category position is a vocabulary code and
\* the next token is "(W)", Category is empty and Quota begins with that
\* code followed by "(W)".
C4_CategorySuppressed ==
    \A n \in Records :
        LET toks == Toks(parsed_at[n])
            c    == CategoryPosition(toks)
        IN  (TokenAt(toks, c) \in VALID_CATEGORIES
                /\ TokenAt(toks, c + 1) = "(W)")
            => /\ data[n]["Category"] = ""
               /\ Len(Split(data[n]["Quota"])) >= 2
               /\ Split(data[n]["Quota"])[1] = toks[c]
               /\ Split(data[n]["Quota"])[2] = "(W)"

\* a record from a row with "OBC (W)" at the category position
C4_Witness ==
    \E n \in Records :
        LET toks == Toks(parsed_at[n])
            c    == CategoryPosition(toks)
        IN  /\ TokenAt(toks, c) = "OBC"
            /\ TokenAt(toks, c + 1) = "(W)"
            /\ data[n]["Gender"] = "M"

(* ------------------------------------------------------------------ *)
(* C5                                                                   *)
(* ------------------------------------------------------------------ *)
\* C5: with a vocabulary code P at the category position, not followed by
\* "(W)", Category is "P S" exactly when the next token S is a sub-code
\* and P is not; otherwise it is "P".  Category is always empty, one code,
\* or a non-sub-code primary plus a sub-code, and a sub-code that is not
\* appended is left for Quota.
C5_CompoundCategory ==
    \A n \in Records :
        LET toks == Toks(parsed_at[n])
            c    == CategoryPosition(toks)
            P    == TokenAt(toks, c)
            S    == TokenAt(toks, c + 1)
            cat  == data[n]["Category"]
        IN  /\ (P \in VALID_CATEGORIES /\ S # "(W)") =>
                  /\ (S \in SUB_CODES /\ P \notin SUB_CODES)
                        <=> cat = P \o " " \o S
                  /\ ~(S \in SUB_CODES /\ P \notin SUB_CODES) => cat = P
                  /\ (S \in SUB_CODES /\ P \in SUB_CODES) =>
                        /\ Len(Split(data[n]["Quota"])) >= 1
                        /\ Split(data[n]["Quota"])[1] = S
            /\ \/ cat = ""
               \/ cat \in VALID_CATEGORIES
               \/ \E A \in VALID_CATEGORIES \ SUB_CODES, B \in SUB_CODES :
                     cat = A \o " " \o B

\* a record whose Category is the compound "OBC PWD"
C5_Witness ==
    \E n \in Records :
        /\ data[n]["Category"] = "OBC PWD"
        /\ TokenAt(Toks(parsed_at[n]),
                   CategoryPosition(Toks(parsed_at[n]))) = "OBC"

(* ------------------------------------------------------------------ *)
(* C6                                                                   *)
(* ------------------------------------------------------------------ *)
\* C6: the Quota tokens run from the end of category extraction up to,
\* excluding, the first token that begins with digits and a colon (or to
\* the end); Quota is their space-join, or exactly "Choice Not Available"
\* when that join starts with "Choice".
C6_Quota ==
    \A n \in Records :
        LET toks   == Toks(parsed_at[n])
            from   == CategoryEnd(n)
            upto   == CollegeStart(toks, from)
            joined == Join(SubSeq(toks, from, upto - 1))
        IN  data[n]["Quota"] =
                IF StartsWith(joined, "Choice")
                THEN "Choice Not Available" ELSE joined

\* a record whose quota tokens are "Choice" and one more token
C6_Witness ==
    \E n \in Records :
        LET toks == Toks(parsed_at[n])
            from == CategoryEnd(n)
        IN  /\ TokenAt(toks, from) = "Choice"
            /\ CollegeStart(toks, from) = from + 2
            /\ data[n]["Quota"] = "Choice Not Available"

(* ------------------------------------------------------------------ *)
(* C7                                                                   *)
(* ------------------------------------------------------------------ *)
\* C7: the tokens left after Quota are joined with spaces and cut at the
\* first colon: College Code is the trimmed left part, College Name the
\* trimmed right part (later colons stay in the name); with no tokens
\* left, or no colon in them, both are empty.
C7_CollegeSplit ==
    \A n \in Records :
        LET toks   == Toks(parsed_at[n])
            from   == CollegeStart(toks, CategoryEnd(n))
            joined == Join(SubSeq(toks, from, Len(toks)))
            colon  == Find(joined, ":", 1)
        IN  IF from <= Len(toks) /\ colon > 0
            THEN /\ data[n]["College Code"] =
                        Strip(SubSeq(joined, 1, colon - 1))
                 /\ data[n]["College Name"] =
                        Strip(SubSeq(joined, colon + 1, Len(joined)))
            ELSE /\ data[n]["College Code"] = ""
                 /\ data[n]["College Name"] = ""

\* a record whose college name keeps a later colon and lost a space
C7_Witness ==
    \E n \in Records :
        /\ data[n]["College Code"] = "7"
        /\ data[n]["College Name"] = "G:K"

(* ------------------------------------------------------------------ *)
(* C8                                                                   *)
(* ------------------------------------------------------------------ *)
\* C8: successive invocations on the same text return the same record
\* sequence, and each invocation starts with fresh flags and record list.
C8_Idempotent ==
    /\ \A a, b \in 1..Len(results) : results[a] = results[b]
    /\ (pc = "loop" /\ i = 1) =>
          /\ ~in_table
          /\ ~skip_next_line
          /\ data = <<>>

\* the second invocation has returned records after the first one had
\* ended with the in-table flag set
C8_Witness ==
    /\ Len(results) >= 2
    /\ Len(results[1]) >= 1
    /\ in_table
    /\ pc = "idle"

(* ------------------------------------------------------------------ *)
(* C9                                                                   *)
(* ------------------------------------------------------------------ *)
\* C9: the pending skip discards only the physical line right after the
\* header: when line k is a header line and lines k+1 and k+2 are neither
\* header nor "Legends :" lines, a well-formed data row at line k+2 gives
\* a record, whatever line k+1 is.
C9_SkipIsOneLine ==
    \A k \in 1..(Len(lines) - 2) :
        (/\ IsHeaderLine(k)
         /\ ~IsHeaderLine(k + 1) /\ ~IsLegendsLine(k + 1)
         /\ ~IsHeaderLine(k + 2) /\ ~IsLegendsLine(k + 2)
         /\ WellFormed(Toks(k + 2))
         /\ Read(k + 2))
        => Produced(k + 2)

(* ------------------------------------------------------------------ *)
(* C10                                                                  *)
(* ------------------------------------------------------------------ *)
\* the loop is at an in-table line that the field extractor will reject
AtRejectedRow ==
    /\ ReachesRowTest
    /\ in_table
    /\ ~WellFormed(Split(Cur))

\* C10: rejecting a row leaves the flags and the records as they were and
\* moves on to the next line; every step of the loop moves one line on,
\* and an invocation leaves the loop only at the end of the input,
\* returning the records it has.
C10_SkipAndContinue ==
    [][/\ AtRejectedRow =>
            /\ in_table' = in_table
            /\ skip_next_line' = skip_next_line
            /\ data' = data
            /\ pc' = "loop"
            /\ i' = i + 1
       /\ (pc = "loop" /\ pc' = "loop") => i' = i + 1
       /\ (pc = "loop" /\ pc' # "loop") =>
            /\ i > Len(lines)
            /\ results' = Append(results, data)]_vars

\* a row was rejected between two rows that gave records
C10_Witness ==
    \E k \in 2..(Len(lines) - 1) :
        /\ Produced(k - 1)
        /\ ~Produced(k)
        /\ Len(Toks(k)) >= 1 /\ IsDigit(Toks(k)[1])
        /\ Produced(k + 1)
        /\ pc = "idle"

====
